---- MODULE Spec2Model ----
(***************************************************************************)
(* A model of go-haproxy: the PROXY protocol v2 header codec.             *)
(* Header.ReadFrom is modelled read by read against an io.Reader that may *)
(* deliver whole or short reads; Header.WriteTo is modelled write by      *)
(* write against an io.Writer.                                            *)
(***************************************************************************)
EXTENDS Integers, Sequences, FiniteSets, TLC

\* task: the direction the caller asked for first; dec, enc: the invocation
\* of Header.ReadFrom and of Header.WriteTo; pkg: the variables of the package,
\* which every invocation of the process shares; wrap: the call of WrapAddress
VARIABLES task, dec, enc, pkg, wrap

vars == <<task, dec, enc, pkg, wrap>>

(***************************************************************************)
(* Bounds of the model.                                                    *)
(***************************************************************************)
\* the largest number of bytes a short read delivers
MaxShort == 2
\* the number of bytes the longest source holds after a 216-byte block
MaxExtra == 2

(***************************************************************************)
(* Program constants.                                                      *)
(***************************************************************************)
ProtocolSignature == <<13, 10, 13, 10, 0, 13, 10, 81, 85, 73, 84, 10>>

\* var ProtocolSignature = []byte{...}: the package variable as the program
\* starts with it
Package == [ProtocolSignature |-> ProtocolSignature]

ProtocolVersion == 2

CommandLOCAL == 0
CommandPROXY == 1

AddressFamilyUNSPEC == 0
AddressFamilyINET == 1
AddressFamilyINET6 == 2
AddressFamilyUNIX == 3

TransportProtocolUNSPEC == 0
TransportProtocolSTREAM == 1
TransportProtocolDGRAM == 2

IPv4AddressLength == 12
IPv6AddressLength == 36
UnixAddrLength == 216
UnixPathLength == 108

(***************************************************************************)
(* Byte arithmetic as Go computes it.                                      *)
(***************************************************************************)
Min(a, b) == IF a < b THEN a ELSE b

RECURSIVE BitOr(_, _)
BitOr(a, b) ==
  IF a = 0 THEN b
  ELSE IF b = 0 THEN a
  ELSE (IF a % 2 = 1 \/ b % 2 = 1 THEN 1 ELSE 0) + 2 * BitOr(a \div 2, b \div 2)

\* x << k on a byte
Shl8(x, k) == (x * (2 ^ k)) % 256

\* x >> 4 on a byte
HighNibble(x) == x \div 16

\* x & 0b1111
LowNibble(x) == x % 16

\* a slip: the two bytes read in little-endian order
LittleEndianUint16(b) == b[2] * 256 + b[1]

\* binary.BigEndian.Uint16
BigEndianUint16(b) == b[1] * 256 + b[2]

\* the conversion AddressLength(uint16): AddressLength is an int16
ToInt16(u) == IF u >= 32768 THEN u - 65536 ELSE u

\* a slip: binary.LittleEndian in place of binary.BigEndian
LittleEndianBytes16(x) == LET u == x % 65536 IN <<u % 256, u \div 256>>

\* binary.Write(w, binary.BigEndian, x) of a 16-bit value: its two bytes
BigEndianBytes16(x) == LET u == x % 65536 IN <<u \div 256, u % 256>>

Zeros(n) == [i \in 1..n |-> 0]

(***************************************************************************)
(* Values: errors, addresses, headers.                                     *)
(***************************************************************************)
NoError == [kind |-> "nil"]
ErrSource == [kind |-> "io.EOF"]
ErrPanic(why) == [kind |-> "panic", why |-> why]
ProxyProtocolError(expected, found) ==
  [kind |-> "ProxyProtocolError", Expected |-> expected, Found |-> found]
TransportProtocolError(tp, af, len) ==
  [kind |-> "TransportProtocolError", TransportProtocol |-> tp,
   AddressFamily |-> af, AddressLength |-> len]
ErrVersion(got) == [kind |-> "unsupported protocol version", got |-> got]
ErrCommand(got) == [kind |-> "unsupported command", got |-> got]
ErrFamily(got) == [kind |-> "unsupported address family", got |-> got]
ErrTransport(got) == [kind |-> "unsupported transport protocol", got |-> got]

NilAddress == [type |-> "nil"]
TCPAddr(ip, port) == [type |-> "TCPAddr", IP |-> ip, Port |-> port]
UDPAddr(ip, port) == [type |-> "UDPAddr", IP |-> ip, Port |-> port]
UnixNetAddr(name, net) == [type |-> "UnixAddr", Name |-> name, Net |-> net]
IPv4Address(src, dst) ==
  [type |-> "IPv4Address", SourceAddr |-> src, DestinationAddr |-> dst]
IPv6Address(src, dst) ==
  [type |-> "IPv6Address", SourceAddr |-> src, DestinationAddr |-> dst]
UnixAddr(src, dst) ==
  [type |-> "UnixAddr", SourceAddr |-> src, DestinationAddr |-> dst]

Header(command, address) == [Command |-> command, ProxyAddress |-> address]

\* var header Header
ZeroHeader == Header(CommandLOCAL, NilAddress)

ProtocolByte(af, tp) == [AddressFamily |-> af, TransportProtocol |-> tp]

(***************************************************************************)
(* The io.Reader: a byte sequence and a position.  The sequence is data    *)
(* followed by fill zero bytes (a long block is held by its length).  A    *)
(* read of k bytes returns n <= k bytes and possibly an error; the rest of *)
(* the buffer keeps the zeros make() put there.                            *)
(***************************************************************************)
Reader(data, fill, short, eager) ==
  [data |-> data, fill |-> fill, pos |-> 0, short |-> short, eager |-> eager]

\* the number of bytes the reader holds, and its i-th byte
Size(r) == Len(r.data) + r.fill

At(r, i) == IF i <= Len(r.data) THEN r.data[i] ELSE 0

Remaining(r) == Size(r) - r.pos

ReadOutcomes(r, k) ==
  LET rem == Remaining(r)
      full == Min(k, rem)
  IN IF rem = 0
     THEN {[n |-> 0, eof |-> TRUE]}
     ELSE {[n |-> j, eof |-> (r.eager /\ j = rem)] :
             j \in (IF r.short THEN 1..Min(full, MaxShort) ELSE {}) \cup {full}}

Buf(r, k, n) == [i \in 1..k |-> IF i <= n THEN At(r, r.pos + i) ELSE 0]

Advance(r, n) == [r EXCEPT !.pos = @ + n]

(***************************************************************************)
(* Header.ReadFrom.  A decoder invocation is a record: the reader r, the   *)
(* Header h it fills, the locals of ReadFrom and the position pc, which    *)
(* names the field whose read comes next.                                  *)
(***************************************************************************)
NoResult ==
  [sourceIP |-> <<>>, destinationIP |-> <<>>, sourcePort |-> 0,
   destinationPort |-> 0, SourceAddr |-> <<>>, DestinationAddr |-> <<>>]

IdleDecoder ==
  [r |-> Reader(<<>>, 0, FALSE, FALSE), h |-> ZeroHeader, old |-> ZeroHeader,
   pc |-> "idle", m |-> 0, err |-> NoError, signature |-> <<>>,
   version |-> [ProtocolVersion |-> 0, Command |-> 0],
   protocol |-> ProtocolByte(0, 0), addressLength |-> 0, ipLen |-> 0,
   result |-> NoResult, reads |-> <<>>]

\* the state at the entry of h.ReadFrom(r)
StartDecoder(r, h) ==
  [IdleDecoder EXCEPT !.r = r, !.h = h, !.old = h, !.pc = "signature"]

\* one r.Read(buf) with len(buf) = k that returned o: the reader moves on and
\* the read is logged
Took(s, k, o) ==
  [s EXCEPT !.r = Advance(@, o.n),
            !.reads = Append(@, [field |-> s.pc, want |-> k, got |-> o.n,
                                 failed |-> o.eof])]

Return(s, m, err) == [s EXCEPT !.pc = "done", !.m = m, !.err = err]

Panic(s, why) == [s EXCEPT !.pc = "panicked", !.err = ErrPanic(why)]

\* a slip: signature := ProtocolSignature, so that the read fills the slice of
\* the package variable
PackageAfterReadAliased(p, signature) ==
  [p EXCEPT !.ProtocolSignature = signature]

\* signature := make([]byte, 12): the read fills a buffer of its own and the
\* package variable keeps its bytes
PackageAfterReadSignature(p, signature) == p

\* a slip: the mismatch is returned before the bytes read are counted
ReadFromSignatureUncounted(s, o) ==
  LET signature == Buf(s.r, 12, o.n)
      s1 == [Took(s, 12, o) EXCEPT !.signature = signature]
      m == s.m + o.n
  IN IF o.eof THEN Return(s1, m, ErrSource)
     ELSE IF signature # pkg.ProtocolSignature
     THEN Return(s1, s.m, ProxyProtocolError(pkg.ProtocolSignature, signature))
     ELSE [s1 EXCEPT !.m = m, !.pc = "version"]

\* signature := make([]byte, 12); n, err := r.Read(signature); ...
ReadFromSignature(s, o) ==
  LET signature == Buf(s.r, 12, o.n)
      s1 == [Took(s, 12, o) EXCEPT !.signature = signature]
      m == s.m + o.n
  IN IF o.eof THEN Return(s1, m, ErrSource)
     ELSE IF signature # pkg.ProtocolSignature
     THEN Return(s1, m, ProxyProtocolError(pkg.ProtocolSignature, signature))
     ELSE [s1 EXCEPT !.m = m, !.pc = "version"]

\* VersionByte.ReadFrom: the value v after the call
VersionByteReadFrom(v, data, o) ==
  IF o.eof THEN v
  ELSE [ProtocolVersion |-> HighNibble(data[1]), Command |-> LowNibble(data[1])]

\* a slip: h.Command is assigned as soon as the byte is read, before the checks
ReadFromVersionStoresFirst(s, o) ==
  LET version == VersionByteReadFrom(s.version, Buf(s.r, 1, o.n), o)
      s1 == [Took(s, 1, o) EXCEPT !.version = version]
      s2 == [s1 EXCEPT !.h.Command = version.Command]
      m == s.m + o.n
  IN IF o.eof THEN Return(s1, m, ErrSource)
     ELSE IF version.ProtocolVersion # ProtocolVersion
     THEN Return(s2, m, ErrVersion(version.ProtocolVersion))
     ELSE IF version.Command # CommandLOCAL /\ version.Command # CommandPROXY
     THEN Return(s2, m, ErrCommand(version.Command))
     ELSE [s2 EXCEPT !.m = m, !.pc = "protocol"]

\* a slip: the command check is a bound that is off by one
ReadFromVersionLooseBound(s, o) ==
  LET version == VersionByteReadFrom(s.version, Buf(s.r, 1, o.n), o)
      s1 == [Took(s, 1, o) EXCEPT !.version = version]
      m == s.m + o.n
  IN IF o.eof THEN Return(s1, m, ErrSource)
     ELSE IF version.ProtocolVersion # ProtocolVersion
     THEN Return(s1, m, ErrVersion(version.ProtocolVersion))
     ELSE IF version.Command > CommandPROXY + 1
     THEN Return(s1, m, ErrCommand(version.Command))
     ELSE [s1 EXCEPT !.m = m, !.h.Command = version.Command, !.pc = "protocol"]

\* var version VersionByte; k, err := version.ReadFrom(r); ... h.Command = version.Command
ReadFromVersion(s, o) ==
  LET version == VersionByteReadFrom(s.version, Buf(s.r, 1, o.n), o)
      s1 == [Took(s, 1, o) EXCEPT !.version = version]
      m == s.m + o.n
  IN IF o.eof THEN Return(s1, m, ErrSource)
     ELSE IF version.ProtocolVersion # ProtocolVersion
     THEN Return(s1, m, ErrVersion(version.ProtocolVersion))
     ELSE IF version.Command # CommandLOCAL /\ version.Command # CommandPROXY
     THEN Return(s1, m, ErrCommand(version.Command))
     ELSE [s1 EXCEPT !.m = m, !.h.Command = version.Command, !.pc = "protocol"]

\* ProtocolByte.ReadFrom: the value p after the call
ProtocolByteReadFrom(p, data, o) ==
  IF o.eof THEN p
  ELSE ProtocolByte(HighNibble(data[1]), LowNibble(data[1]))

\* a slip: the transport nibble is checked before the family nibble
ReadFromProtocolTransportFirst(s, o) ==
  LET protocol == ProtocolByteReadFrom(s.protocol, Buf(s.r, 1, o.n), o)
      s1 == [Took(s, 1, o) EXCEPT !.protocol = protocol]
      m == s.m + o.n
  IN IF o.eof THEN Return(s1, m, ErrSource)
     ELSE IF protocol.TransportProtocol \notin
               {TransportProtocolUNSPEC, TransportProtocolSTREAM,
                TransportProtocolDGRAM}
     THEN Return(s1, m, ErrTransport(protocol.TransportProtocol))
     ELSE IF protocol.AddressFamily \notin
               {AddressFamilyUNSPEC, AddressFamilyINET, AddressFamilyINET6,
                AddressFamilyUNIX}
     THEN Return(s1, m, ErrFamily(protocol.AddressFamily))
     ELSE [s1 EXCEPT !.m = m, !.pc = "addressLength"]

\* var protocol ProtocolByte; k, err = protocol.ReadFrom(r); ...
ReadFromProtocol(s, o) ==
  LET protocol == ProtocolByteReadFrom(s.protocol, Buf(s.r, 1, o.n), o)
      s1 == [Took(s, 1, o) EXCEPT !.protocol = protocol]
      m == s.m + o.n
  IN IF o.eof THEN Return(s1, m, ErrSource)
     ELSE IF protocol.AddressFamily \notin
               {AddressFamilyUNSPEC, AddressFamilyINET, AddressFamilyINET6,
                AddressFamilyUNIX}
     THEN Return(s1, m, ErrFamily(protocol.AddressFamily))
     ELSE IF protocol.TransportProtocol \notin
               {TransportProtocolUNSPEC, TransportProtocolSTREAM,
                TransportProtocolDGRAM}
     THEN Return(s1, m, ErrTransport(protocol.TransportProtocol))
     ELSE [s1 EXCEPT !.m = m, !.pc = "addressLength"]

\* AddressLength.ReadFrom: the value a after the call
AddressLengthReadFrom(a, data, o) ==
  IF o.eof THEN a ELSE ToInt16(BigEndianUint16(data))

\* switch protocol { ... }: the first read of the case that is taken
Dispatch(s) ==
  LET af == s.protocol.AddressFamily
      tp == s.protocol.TransportProtocol
      recognized == tp \in {TransportProtocolSTREAM, TransportProtocolDGRAM}
  IN IF recognized /\ af = AddressFamilyINET
     THEN [s EXCEPT !.pc = "sourceIP", !.ipLen = 4]
     ELSE IF recognized /\ af = AddressFamilyINET6
     THEN [s EXCEPT !.pc = "sourceIP", !.ipLen = 16]
     ELSE IF recognized /\ af = AddressFamilyUNIX
     THEN [s EXCEPT !.pc = "unixSource"]
     \* default: data := make([]byte, addressLength)
     ELSE IF s.addressLength < 0
     THEN Panic(s, "makeslice: len out of range")
     ELSE [s EXCEPT !.pc = "drain"]

\* var addressLength AddressLength; k, err = addressLength.ReadFrom(r); ...
ReadFromAddressLength(s, o) ==
  LET addressLength ==
        AddressLengthReadFrom(s.addressLength, Buf(s.r, 2, o.n), o)
      s1 == [Took(s, 2, o) EXCEPT !.addressLength = addressLength]
      m == s.m + o.n
  IN IF o.eof THEN Return(s1, m, ErrSource)
     ELSE IF addressLength = 0 THEN Return(s1, m, NoError)
     ELSE Dispatch([s1 EXCEPT !.m = m])

\* a slip: the two UNIX cases carry each other's network name
BuildAddressNetSwapped(protocol, result) ==
  LET af == protocol.AddressFamily
      stream == protocol.TransportProtocol = TransportProtocolSTREAM
      src == IF stream THEN TCPAddr(result.sourceIP, result.sourcePort)
             ELSE UDPAddr(result.sourceIP, result.sourcePort)
      dst == IF stream THEN TCPAddr(result.destinationIP, result.destinationPort)
             ELSE UDPAddr(result.destinationIP, result.destinationPort)
      net == IF stream THEN "unixgram" ELSE "unixpacket"
  IN IF af = AddressFamilyINET THEN IPv4Address(src, dst)
     ELSE IF af = AddressFamilyINET6 THEN IPv6Address(src, dst)
     ELSE UnixAddr(UnixNetAddr(result.SourceAddr, net),
                   UnixNetAddr(result.DestinationAddr, net))

\* the ProxyAddress the six cases build from the result of readIPsAndPorts or readUnix
BuildAddress(protocol, result) ==
  LET af == protocol.AddressFamily
      stream == protocol.TransportProtocol = TransportProtocolSTREAM
      src == IF stream THEN TCPAddr(result.sourceIP, result.sourcePort)
             ELSE UDPAddr(result.sourceIP, result.sourcePort)
      dst == IF stream THEN TCPAddr(result.destinationIP, result.destinationPort)
             ELSE UDPAddr(result.destinationIP, result.destinationPort)
      net == IF stream THEN "unixpacket" ELSE "unixgram"
  IN IF af = AddressFamilyINET THEN IPv4Address(src, dst)
     ELSE IF af = AddressFamilyINET6 THEN IPv6Address(src, dst)
     ELSE UnixAddr(UnixNetAddr(result.SourceAddr, net),
                   UnixNetAddr(result.DestinationAddr, net))

\* a slip: a failed address read returns before its bytes are counted
ReadFromIPUncounted(s, o) ==
  LET ip == Buf(s.r, s.ipLen, o.n)
      s1 == Took(s, s.ipLen, o)
      m == s.m + o.n
  IN IF o.eof THEN Return(s1, s.m, ErrSource)
     ELSE IF s.pc = "sourceIP"
     THEN [s1 EXCEPT !.m = m, !.result.sourceIP = ip, !.pc = "destinationIP"]
     ELSE [s1 EXCEPT !.m = m, !.result.destinationIP = ip, !.pc = "sourcePort"]

\* readIP(r, length), called for the source and then the destination address
ReadFromIP(s, o) ==
  LET ip == Buf(s.r, s.ipLen, o.n)
      s1 == Took(s, s.ipLen, o)
      m == s.m + o.n
  IN IF o.eof THEN Return(s1, m, ErrSource)
     ELSE IF s.pc = "sourceIP"
     THEN [s1 EXCEPT !.m = m, !.result.sourceIP = ip, !.pc = "destinationIP"]
     ELSE [s1 EXCEPT !.m = m, !.result.destinationIP = ip, !.pc = "sourcePort"]

\* readPort(r), called for the source and then the destination port; after
\* the last one the case assigns h.ProxyAddress
ReadFromPort(s, o) ==
  LET port == BigEndianUint16(Buf(s.r, 2, o.n))
      s1 == Took(s, 2, o)
      m == s.m + o.n
  IN IF o.eof THEN Return(s1, m, ErrSource)
     ELSE IF s.pc = "sourcePort"
     THEN [s1 EXCEPT !.m = m, !.result.sourcePort = port,
                     !.pc = "destinationPort"]
     ELSE LET result == [s.result EXCEPT !.destinationPort = port]
          IN [Return(s1, m, NoError) EXCEPT
                !.result = result,
                !.h.ProxyAddress = BuildAddress(s.protocol, result)]

\* readUnix(r): the two 108-byte reads; after the second one the case assigns
\* h.ProxyAddress
ReadFromUnix(s, o) ==
  LET path == Buf(s.r, UnixPathLength, o.n)
      s1 == Took(s, UnixPathLength, o)
      m == s.m + o.n
  IN IF o.eof THEN Return(s1, m, ErrSource)
     ELSE IF s.pc = "unixSource"
     THEN [s1 EXCEPT !.m = m, !.result.SourceAddr = path,
                     !.pc = "unixDestination"]
     ELSE LET result == [s.result EXCEPT !.DestinationAddr = path]
          IN [Return(s1, m, NoError) EXCEPT
                !.result = result,
                !.h.ProxyAddress = BuildAddress(s.protocol, result)]

\* default: data := make([]byte, addressLength); n, err := r.Read(data); ...
ReadFromDrain(s, o) ==
  LET s1 == Took(s, s.addressLength, o)
      m == s.m + o.n
  IN IF o.eof THEN Return(s1, m, ErrSource)
     ELSE Return(s1, m,
                 TransportProtocolError(s.protocol.TransportProtocol,
                                        s.protocol.AddressFamily,
                                        s.addressLength))

\* the number of bytes the read at position pc asks for
Want(s) ==
  CASE s.pc = "signature" -> 12
    [] s.pc \in {"version", "protocol"} -> 1
    [] s.pc \in {"addressLength", "sourcePort", "destinationPort"} -> 2
    [] s.pc \in {"sourceIP", "destinationIP"} -> s.ipLen
    [] s.pc \in {"unixSource", "unixDestination"} -> UnixPathLength
    [] s.pc = "drain" -> s.addressLength
    [] OTHER -> 0

\* ReadFrom from one read to the next
DecodeStep(s, o) ==
  CASE s.pc = "signature" -> ReadFromSignature(s, o)
    [] s.pc = "version" -> ReadFromVersion(s, o)
    [] s.pc = "protocol" -> ReadFromProtocol(s, o)
    [] s.pc = "addressLength" -> ReadFromAddressLength(s, o)
    [] s.pc \in {"sourceIP", "destinationIP"} -> ReadFromIP(s, o)
    [] s.pc \in {"sourcePort", "destinationPort"} -> ReadFromPort(s, o)
    [] s.pc \in {"unixSource", "unixDestination"} -> ReadFromUnix(s, o)
    [] s.pc = "drain" -> ReadFromDrain(s, o)
    [] OTHER -> s

DecoderRunning(s) == s.pc \notin {"idle", "done", "panicked"}

DecoderEnded(s) == s.pc \in {"done", "panicked"}

\* what the caller of ReadFrom observes
Outcome(s) ==
  [h |-> s.h, m |-> s.m, err |-> s.err, panicked |-> s.pc = "panicked"]

(***************************************************************************)
(* The io.Writer: the bytes it accepted and the number of bytes it         *)
(* accepts before it fails (NoLimit: it never fails, as bytes.Buffer).     *)
(***************************************************************************)
NoLimit == -1

Writer(limit) == [buf |-> <<>>, limit |-> limit]

\* the number of bytes w.Write(p) accepts
Accepted(w, p) ==
  IF w.limit = NoLimit \/ Len(w.buf) + Len(p) <= w.limit THEN Len(p)
  ELSE IF w.limit > Len(w.buf) THEN w.limit - Len(w.buf)
  ELSE 0

\* w after w.Write(p)
Write(w, p) == [w EXCEPT !.buf = @ \o SubSeq(p, 1, Accepted(w, p))]

WriteFailed(w, p) == Accepted(w, p) < Len(p)

(***************************************************************************)
(* The address variants: getLength, getSignature and the bytes of WriteTo. *)
(***************************************************************************)
getTransportProtocol(addr) ==
  CASE addr.type = "TCPAddr" -> TransportProtocolSTREAM
    [] addr.type = "UDPAddr" -> TransportProtocolDGRAM
    [] addr.type = "UnixAddr" ->
         IF addr.Net = "unixgram" THEN TransportProtocolDGRAM
         ELSE TransportProtocolSTREAM

getLength(a) ==
  CASE a.type = "IPv4Address" -> IPv4AddressLength
    [] a.type = "IPv6Address" -> IPv6AddressLength
    [] a.type = "UnixAddr" -> UnixAddrLength

AddressFamilyOf(a) ==
  CASE a.type = "IPv4Address" -> AddressFamilyINET
    [] a.type = "IPv6Address" -> AddressFamilyINET6
    [] a.type = "UnixAddr" -> AddressFamilyUNIX

\* a slip: the transport is taken from the destination endpoint
getSignatureOfDestination(a) ==
  ProtocolByte(AddressFamilyOf(a), getTransportProtocol(a.DestinationAddr))

getSignature(a) ==
  ProtocolByte(AddressFamilyOf(a), getTransportProtocol(a.SourceAddr))

\* if len(ip) < 16 { return append(make([]byte, 16-len(ip)), ip...) }
alignIP(ip) == IF Len(ip) < 16 THEN Zeros(16 - Len(ip)) \o ip ELSE ip

\* a slip: a path longer than 108 bytes is written whole
addressToBytesUncut(addr) ==
  IF addr.type \in {"TCPAddr", "UDPAddr"} THEN alignIP(addr.IP)
  ELSE IF Len(addr.Name) > UnixPathLength THEN addr.Name
  ELSE [i \in 1..UnixPathLength |->
          IF i <= Len(addr.Name) THEN addr.Name[i] ELSE 0]

addressToBytes(addr) ==
  IF addr.type \in {"TCPAddr", "UDPAddr"} THEN alignIP(addr.IP)
  ELSE [i \in 1..UnixPathLength |->
          IF i <= Len(addr.Name) THEN addr.Name[i] ELSE 0]

\* uint16(addr.Port)
getPort(addr) == addr.Port % 65536

\* the slice an address variant hands to w.Write for one endpoint
EndpointBytes(a, addr) ==
  IF a.type = "IPv4Address"
  THEN SubSeq(addressToBytes(addr), 13, Len(addressToBytes(addr)))
  ELSE addressToBytes(addr)

\* the byte VersionByte.WriteTo writes: v.ProtocolVersion<<4 | byte(v.Command)
VersionByteOf(version, command) == BitOr(Shl8(version, 4), command)

\* the byte ProtocolByte.WriteTo writes
ProtocolByteOf(p) == BitOr(Shl8(p.AddressFamily, 4), p.TransportProtocol)

(***************************************************************************)
(* WrapAddress.  A net.Addr is nil, a TCP, UDP or UNIX endpoint, or an     *)
(* endpoint of a type the package has no variant for (net.IPAddr).         *)
(***************************************************************************)
NilNetAddr == [type |-> "nil"]
IPAddr(ip) == [type |-> "IPAddr", IP |-> ip]

\* net.IP.To4() != nil: 4 bytes, or 16 bytes with the IPv4-in-IPv6 prefix
IsIPv4(ip) ==
  \/ Len(ip) = 4
  \/ /\ Len(ip) = 16
     /\ \A i \in 1..10 : ip[i] = 0
     /\ ip[11] = 255 /\ ip[12] = 255

\* strings.Count(src.String(), ":") > 1: the host of a TCP or UDP endpoint is
\* printed with colons of its own only when the IP is 16 bytes and not IPv4
SeveralColons(addr) == Len(addr.IP) = 16 /\ ~IsIPv4(addr.IP)

\* strings.Count(src.String(), ".") == 3: the host is a dotted quad
ThreeDots(addr) == IsIPv4(addr.IP)

ErrTypes(src, dst) ==
  [kind |-> "addresses of different types", source |-> src,
   destination |-> dst]
ErrMissing == [kind |-> "address missing"]
ErrNotSupported(type) == [kind |-> "address is not supported", type |-> type]

WrapResult(addr, err) == [addr |-> addr, err |-> err, panicked |-> FALSE]

\* reflect.TypeOf(x) is nil for the nil interface, and nil.String() panics
WrapPanic ==
  [addr |-> NilAddress, err |-> ErrPanic("nil pointer dereference"),
   panicked |-> TRUE]

\* func WrapAddress(src, dst net.Addr) (ProxyAddress, error)
WrapAddress(src, dst) ==
  IF src.type # dst.type
  THEN IF src = NilNetAddr \/ dst = NilNetAddr THEN WrapPanic
       ELSE WrapResult(NilAddress, ErrTypes(src.type, dst.type))
  ELSE IF src = NilNetAddr \/ dst = NilNetAddr
  THEN WrapResult(NilAddress, ErrMissing)
  ELSE IF src.type \in {"TCPAddr", "UDPAddr"}
  THEN IF SeveralColons(src) THEN WrapResult(IPv6Address(src, dst), NoError)
       ELSE IF ThreeDots(src) THEN WrapResult(IPv4Address(src, dst), NoError)
       ELSE WrapResult(NilAddress, ErrNotSupported(src.type))
  ELSE IF src.type = "UnixAddr"
  THEN WrapResult(UnixAddr(src, dst), NoError)
  ELSE WrapResult(NilAddress, ErrNotSupported(src.type))

\* a call of WrapAddress: its arguments, and its result once it has ended
IdleWrap ==
  [src |-> NilNetAddr, dst |-> NilNetAddr, pc |-> "idle",
   addr |-> NilAddress, err |-> NoError]

StartWrap(src, dst) == [IdleWrap EXCEPT !.src = src, !.dst = dst, !.pc = "called"]

(***************************************************************************)
(* Header.WriteTo.  An encoder invocation is a record: the Header h, the   *)
(* writer w, the results m and err, and the position pc, which names the   *)
(* field whose write comes next.  m is the count as WriteTo's caller gets  *)
(* it: the counts of the nested WriteTo calls are added as they return.    *)
(***************************************************************************)
\* prev: what the caller keeps of an earlier WriteTo of the same Header
NoPrevious == [taken |-> FALSE, buf |-> <<>>, m |-> 0, err |-> NoError]

IdleEncoder ==
  [h |-> ZeroHeader, w |-> Writer(NoLimit), pc |-> "idle", m |-> 0,
   err |-> NoError, prev |-> NoPrevious]

StartEncoder(h, w) == [IdleEncoder EXCEPT !.h = h, !.w = w, !.pc = "signature"]

ErrSink == [kind |-> "write error"]

\* n, err := w.Write(p); m += int64(n); if err != nil { return m, err }
WriteBytes(s, p, next) ==
  LET s1 == [s EXCEPT !.w = Write(@, p), !.m = @ + Accepted(s.w, p)]
  IN IF WriteFailed(s.w, p) THEN [s1 EXCEPT !.pc = "done", !.err = ErrSink]
     ELSE [s1 EXCEPT !.pc = next]

\* err = binary.Write(w, binary.BigEndian, x): the count is 2 on success and
\* 0 on failure, whatever the writer accepted
WriteBinary16(s, x, next) ==
  LET p == BigEndianBytes16(x)
      s1 == [s EXCEPT !.w = Write(@, p)]
  IN IF WriteFailed(s.w, p) THEN [s1 EXCEPT !.pc = "done", !.err = ErrSink]
     ELSE [s1 EXCEPT !.m = @ + 2, !.pc = next]

\* n, err := w.Write(ProtocolSignature)
WriteToSignature(s) == WriteBytes(s, pkg.ProtocolSignature, "version")

\* k, err := version.WriteTo(w)
WriteToVersion(s) ==
  WriteBytes(s, <<VersionByteOf(ProtocolVersion, s.h.Command)>>, "protocol")

\* k, err = h.ProxyAddress.getSignature().WriteTo(w)
WriteToProtocol(s) ==
  IF s.h.ProxyAddress = NilAddress
  THEN [s EXCEPT !.pc = "panicked",
                 !.err = ErrPanic("nil pointer dereference")]
  ELSE WriteBytes(s, <<ProtocolByteOf(getSignature(s.h.ProxyAddress))>>,
                  "addressLength")

\* if h.Command == CommandPROXY { getLength().WriteTo(w) ... } else { AddressLength(0).WriteTo(w) }
WriteToAddressLength(s) ==
  IF s.h.Command = CommandPROXY
  THEN WriteBinary16(s, getLength(s.h.ProxyAddress), "sourceAddr")
  ELSE WriteBinary16(s, 0, "done")

\* IPv4Address/IPv6Address/UnixAddr.WriteTo: the source and the destination address
WriteToEndpoint(s) ==
  LET a == s.h.ProxyAddress
  IN IF s.pc = "sourceAddr"
     THEN WriteBytes(s, EndpointBytes(a, a.SourceAddr), "destinationAddr")
     ELSE WriteBytes(s, EndpointBytes(a, a.DestinationAddr),
                     IF a.type = "UnixAddr" THEN "done" ELSE "sourcePort")

\* writePorts(w, a.SourceAddr, a.DestinationAddr)
WriteToPort(s) ==
  LET a == s.h.ProxyAddress
  IN IF s.pc = "sourcePort"
     THEN WriteBinary16(s, getPort(a.SourceAddr), "destinationPort")
     ELSE WriteBinary16(s, getPort(a.DestinationAddr), "done")

EncoderEnded(s) == s.pc \in {"done", "panicked"}

(***************************************************************************)
(* The inputs: the byte sequences a reader holds and the Header values a   *)
(* caller encodes.                                                         *)
(***************************************************************************)
\* the test vectors of TestHeader_ReadFrom
CanonicalPayload == <<127, 0, 0, 1, 127, 0, 0, 1, 165, 206, 5, 58>>
BrokenSignature == <<0, 0, 0, 0, 0, 0, 0, 0, 85, 73, 84, 10>>
ZeroFirstSignature == <<0, 10, 13, 10, 0, 13, 10, 81, 85, 73, 84, 10>>

PayloadByte(i) == (i * 37 + 11) % 256

Payload(n) == [i \in 1..n |-> PayloadByte(i)]

Wire(sig, ver, proto, len, payload) ==
  sig \o <<ver, proto>> \o BigEndianBytes16(len) \o payload

CanonicalVector == Wire(ProtocolSignature, 33, 17, 12, CanonicalPayload)

SignatureInputs == {ProtocolSignature, BrokenSignature, ZeroFirstSignature}
VersionInputs == {32, 33, 17, 34, 47, 49}
ProtocolInputs == {0, 1, 2, 16, 17, 18, 33, 34, 48, 49, 50, 65, 19, 69, 255}
LengthInputs == {0, 5, 10, 12, 36, 216, 32773, 65535}
AvailInputs ==
  {b + x : b \in {0, 5, 10, 12, 36, 216}, x \in 0..MaxExtra} \cup {3, 110}

\* every prefix of the canonical vector under each signature
TruncatedInputs ==
  {SubSeq(Wire(sig, 33, 17, 12, CanonicalPayload), 1, c) :
     sig \in SignatureInputs, c \in 0..28}

VersionByteInputs ==
  {Wire(ProtocolSignature, ver, 17, 12, CanonicalPayload) : ver \in VersionInputs}

\* every family/transport byte with every declared length and payload size
BodyInputs ==
  {Wire(ProtocolSignature, ver, proto, len, Payload(n)) :
     ver \in {32, 33}, proto \in ProtocolInputs, len \in LengthInputs,
     n \in AvailInputs}

\* the well-formed headers: the six recognized pairs and the LOCAL header
WellFormedInputs ==
  {Wire(ProtocolSignature, 33, 17, 12, Payload(12 + MaxExtra)),
   Wire(ProtocolSignature, 33, 18, 12, Payload(12 + MaxExtra)),
   Wire(ProtocolSignature, 33, 33, 36, Payload(36 + MaxExtra)),
   Wire(ProtocolSignature, 33, 34, 36, Payload(36 + MaxExtra)),
   Wire(ProtocolSignature, 33, 49, 216, Payload(216 + MaxExtra)),
   Wire(ProtocolSignature, 33, 50, 216, Payload(216 + MaxExtra)),
   Wire(ProtocolSignature, 32, 0, 0, Payload(MaxExtra)),
   Wire(ProtocolSignature, 33, 1, 5, Payload(5 + MaxExtra))}

\* a header that declares the smallest length above 32767; its block is
\* held as fill
LongInput == Wire(ProtocolSignature, 33, 1, 32768, <<>>)

LongFill == 32768 + MaxExtra

\* a Header a previous decode left behind
StaleHeader ==
  Header(CommandPROXY,
         IPv4Address(TCPAddr(<<10, 1, 2, 3>>, 7), TCPAddr(<<10, 1, 2, 4>>, 8)))

DecodeInputs ==
  {<<Reader(data, 0, FALSE, eager), h>> :
     data \in TruncatedInputs \cup VersionByteInputs \cup BodyInputs,
     eager \in BOOLEAN, h \in {ZeroHeader}}
  \cup
  {<<Reader(LongInput, LongFill, FALSE, FALSE), ZeroHeader>>}
  \cup
  {<<Reader(data, 0, short, FALSE), h>> :
     data \in TruncatedInputs \cup VersionByteInputs \cup WellFormedInputs,
     short \in BOOLEAN, h \in {ZeroHeader, StaleHeader}}

IPv4Mapped == <<0, 0, 0, 0, 0, 0, 0, 0, 0, 0, 255, 255, 127, 0, 0, 1>>
IPv6Loopback == <<0, 0, 0, 0, 0, 0, 0, 0, 0, 0, 0, 0, 0, 0, 0, 1>>
IPv6Global == <<32, 1, 13, 184, 0, 0, 0, 0, 0, 0, 0, 0, 0, 0, 0, 1>>

IPInputs == {<<>>, <<127, 0, 0, 1>>, <<10, 1, 2, 3>>, IPv4Mapped, IPv6Global}

PortInputs == {<<42446, 1338>>, <<0, 65535>>}

UnixNameInputs ==
  {<<>>, <<47, 97>>, [i \in 1..UnixPathLength |-> 97 + (i % 7)],
   [i \in 1..(UnixPathLength + 2) |-> 47 + (i % 5)]}

IPEndpointInputs ==
  {<<TCPAddr(src, ports[1]), TCPAddr(dst, ports[2])>> :
     src \in IPInputs, dst \in {<<127, 0, 0, 1>>, IPv6Loopback},
     ports \in PortInputs}
  \cup
  {<<UDPAddr(src, ports[1]), UDPAddr(dst, ports[2])>> :
     src \in IPInputs, dst \in {<<127, 0, 0, 1>>, IPv6Loopback},
     ports \in PortInputs}
  \cup
  {<<TCPAddr(<<10, 1, 2, 3>>, 7), UDPAddr(<<127, 0, 0, 1>>, 8)>>,
   <<UDPAddr(<<10, 1, 2, 3>>, 7), TCPAddr(<<127, 0, 0, 1>>, 8)>>}

AddressInputs ==
  {NilAddress}
  \cup {IPv4Address(e[1], e[2]) : e \in IPEndpointInputs}
  \cup {IPv6Address(e[1], e[2]) : e \in IPEndpointInputs}
  \cup {UnixAddr(UnixNetAddr(src, net), UnixNetAddr(dst, net)) :
          src \in UnixNameInputs, dst \in UnixNameInputs,
          net \in {"unix", "unixgram", "unixpacket"}}

\* the Header of TestHeader_WriteTo
TestHeader ==
  Header(CommandPROXY,
         IPv4Address(TCPAddr(<<127, 0, 0, 1>>, 42446),
                     TCPAddr(<<127, 0, 0, 1>>, 1338)))

HeaderInputs ==
  {Header(c, a) : c \in {CommandLOCAL, CommandPROXY}, a \in AddressInputs}

\* the largest number of bytes after which a writer fails
MaxSinkLimit == 17

WriterInputs == {Writer(NoLimit)} \cup {Writer(l) : l \in 0..MaxSinkLimit}

(***************************************************************************)
(* The state machine: one decode, or one encode, followed by the other     *)
(* direction on what the first produced.                                   *)
(***************************************************************************)
Init ==
  /\ pkg = Package
  /\ wrap = IdleWrap
  /\ \/ /\ task = "decode"
        /\ \E in \in DecodeInputs : dec = StartDecoder(in[1], in[2])
        /\ enc = IdleEncoder
     \/ /\ task = "encode"
        /\ \E h \in HeaderInputs, w \in WriterInputs : enc = StartEncoder(h, w)
        /\ dec = IdleDecoder

ReadSignature ==
  /\ dec.pc = "signature"
  /\ \E o \in ReadOutcomes(dec.r, Want(dec)) :
       /\ dec' = ReadFromSignature(dec, o)
       /\ pkg' = PackageAfterReadSignature(pkg, Buf(dec.r, 12, o.n))
  /\ UNCHANGED <<task, enc, wrap>>

ReadVersion ==
  /\ dec.pc = "version"
  /\ \E o \in ReadOutcomes(dec.r, Want(dec)) : dec' = ReadFromVersion(dec, o)
  /\ UNCHANGED <<task, enc, pkg, wrap>>

ReadProtocol ==
  /\ dec.pc = "protocol"
  /\ \E o \in ReadOutcomes(dec.r, Want(dec)) : dec' = ReadFromProtocol(dec, o)
  /\ UNCHANGED <<task, enc, pkg, wrap>>

ReadAddressLength ==
  /\ dec.pc = "addressLength"
  /\ \E o \in ReadOutcomes(dec.r, Want(dec)) :
       dec' = ReadFromAddressLength(dec, o)
  /\ UNCHANGED <<task, enc, pkg, wrap>>

ReadIP ==
  /\ dec.pc \in {"sourceIP", "destinationIP"}
  /\ \E o \in ReadOutcomes(dec.r, Want(dec)) : dec' = ReadFromIP(dec, o)
  /\ UNCHANGED <<task, enc, pkg, wrap>>

ReadPort ==
  /\ dec.pc \in {"sourcePort", "destinationPort"}
  /\ \E o \in ReadOutcomes(dec.r, Want(dec)) : dec' = ReadFromPort(dec, o)
  /\ UNCHANGED <<task, enc, pkg, wrap>>

ReadUnix ==
  /\ dec.pc \in {"unixSource", "unixDestination"}
  /\ \E o \in ReadOutcomes(dec.r, Want(dec)) : dec' = ReadFromUnix(dec, o)
  /\ UNCHANGED <<task, enc, pkg, wrap>>

Drain ==
  /\ dec.pc = "drain"
  /\ \E o \in ReadOutcomes(dec.r, Want(dec)) : dec' = ReadFromDrain(dec, o)
  /\ UNCHANGED <<task, enc, pkg, wrap>>

WriteSignature ==
  enc.pc = "signature" /\ enc' = WriteToSignature(enc) /\ UNCHANGED <<task, dec, pkg, wrap>>
WriteVersion ==
  enc.pc = "version" /\ enc' = WriteToVersion(enc) /\ UNCHANGED <<task, dec, pkg, wrap>>
WriteProtocol ==
  enc.pc = "protocol" /\ enc' = WriteToProtocol(enc) /\ UNCHANGED <<task, dec, pkg, wrap>>
WriteAddressLength ==
  enc.pc = "addressLength" /\ enc' = WriteToAddressLength(enc) /\ UNCHANGED <<task, dec, pkg, wrap>>
WriteEndpoint ==
  /\ enc.pc \in {"sourceAddr", "destinationAddr"}
  /\ enc' = WriteToEndpoint(enc)
  /\ UNCHANGED <<task, dec, pkg, wrap>>
WritePort ==
  /\ enc.pc \in {"sourcePort", "destinationPort"}
  /\ enc' = WriteToPort(enc)
  /\ UNCHANGED <<task, dec, pkg, wrap>>

\* the bytes an encode produced are decoded into a fresh Header
Loopback ==
  /\ dec.pc = "idle"
  /\ enc.pc = "done" /\ enc.err = NoError
  /\ dec' = StartDecoder(Reader(enc.w.buf, 0, FALSE, FALSE), ZeroHeader)
  /\ UNCHANGED <<task, enc, pkg, wrap>>

\* the Header a decode produced is encoded again
Forward ==
  /\ enc.pc = "idle"
  /\ dec.pc = "done" /\ dec.err = NoError
  /\ enc' = StartEncoder(dec.h, Writer(NoLimit))
  /\ UNCHANGED <<task, dec, pkg, wrap>>

\* the Header an encode has written is encoded once more, into a writer that
\* accepts every write; the caller keeps the first output
Again ==
  /\ enc.pc = "done" /\ enc.err = NoError /\ enc.w.limit = NoLimit
  /\ ~enc.prev.taken
  /\ enc' = [StartEncoder(enc.h, Writer(NoLimit)) EXCEPT
               !.prev = [taken |-> TRUE, buf |-> enc.w.buf, m |-> enc.m,
                         err |-> enc.err]]
  /\ UNCHANGED <<task, dec, pkg, wrap>>

Next ==
  \/ ReadSignature \/ ReadVersion \/ ReadProtocol \/ ReadAddressLength
  \/ ReadIP \/ ReadPort \/ ReadUnix \/ Drain
  \/ WriteSignature \/ WriteVersion \/ WriteProtocol \/ WriteAddressLength
  \/ WriteEndpoint \/ WritePort
  \/ Loopback \/ Forward \/ Again

Spec == Init /\ [][Next]_vars

(***************************************************************************)
(* Two invocations at once: a ReadFrom and a WriteTo run concurrently, on  *)
(* a source, a sink and Headers of their own, and the scheduler takes the  *)
(* next read or the next write in any order.                               *)
(***************************************************************************)
ConcurrentDecodeInputs ==
  WellFormedInputs
  \cup {Wire(sig, 33, 17, 12, CanonicalPayload) : sig \in SignatureInputs}

ConcurrentHeaderInputs ==
  {TestHeader,
   Header(CommandLOCAL, TestHeader.ProxyAddress),
   Header(CommandPROXY,
          IPv6Address(UDPAddr(IPv6Global, 0), UDPAddr(IPv6Loopback, 65535))),
   Header(CommandPROXY,
          UnixAddr(UnixNetAddr(<<47, 97>>, "unixgram"),
                   UnixNetAddr(<<>>, "unixgram"))),
   Header(CommandLOCAL, NilAddress)}

ConcurrentWriterInputs == {Writer(NoLimit), Writer(15)}

InitConcurrent ==
  /\ pkg = Package
  /\ wrap = IdleWrap
  /\ task = "concurrent"
  /\ \E data \in ConcurrentDecodeInputs :
       dec = StartDecoder(Reader(data, 0, FALSE, FALSE), ZeroHeader)
  /\ \E h \in ConcurrentHeaderInputs, w \in ConcurrentWriterInputs :
       enc = StartEncoder(h, w)

NextConcurrent ==
  \/ ReadSignature \/ ReadVersion \/ ReadProtocol \/ ReadAddressLength
  \/ ReadIP \/ ReadPort \/ ReadUnix \/ Drain
  \/ WriteSignature \/ WriteVersion \/ WriteProtocol \/ WriteAddressLength
  \/ WriteEndpoint \/ WritePort
  \/ Again

SpecConcurrent == InitConcurrent /\ [][NextConcurrent]_vars

(***************************************************************************)
(* Serializing as the README shows it: WrapAddress on two endpoints, and   *)
(* WriteTo of a PROXY Header with the variant it returned.                 *)
(***************************************************************************)
NetAddrInputs ==
  {NilNetAddr,
   TCPAddr(<<>>, 1338), TCPAddr(<<127, 0, 0, 1>>, 42446),
   TCPAddr(IPv4Mapped, 1338), TCPAddr(IPv6Global, 443),
   UDPAddr(<<10, 1, 2, 3>>, 53), UDPAddr(IPv6Loopback, 53),
   UnixNetAddr(<<47, 97>>, "unix"), UnixNetAddr(<<>>, "unixgram"),
   IPAddr(<<127, 0, 0, 1>>)}

InitWrap ==
  /\ pkg = Package
  /\ task = "wrap"
  /\ dec = IdleDecoder
  /\ enc = IdleEncoder
  /\ \E src \in NetAddrInputs, dst \in NetAddrInputs :
       wrap = StartWrap(src, dst)

\* addr, err := WrapAddress(src, dst)
Wrap ==
  /\ wrap.pc = "called"
  /\ LET res == WrapAddress(wrap.src, wrap.dst)
     IN wrap' = [wrap EXCEPT
                   !.pc = IF res.panicked THEN "panicked" ELSE "returned",
                   !.addr = res.addr, !.err = res.err]
  /\ UNCHANGED <<task, dec, enc, pkg>>

\* header := Header{Command: CommandPROXY, ProxyAddress: addr}; header.WriteTo(w)
Serialize ==
  /\ wrap.pc = "returned" /\ wrap.err = NoError
  /\ enc.pc = "idle"
  /\ enc' = StartEncoder(Header(CommandPROXY, wrap.addr), Writer(NoLimit))
  /\ UNCHANGED <<task, dec, pkg, wrap>>

NextWrap ==
  \/ Wrap \/ Serialize
  \/ WriteSignature \/ WriteVersion \/ WriteProtocol \/ WriteAddressLength
  \/ WriteEndpoint \/ WritePort

SpecWrap == InitWrap /\ [][NextWrap]_vars

(***************************************************************************)
(* Vocabulary of the properties.                                           *)
(***************************************************************************)
\* the reader returns every requested field in one read and reports the end
\* of its data only by a read that returns no bytes (as bytes.Reader does)
WholeReads(s) == ~s.r.short /\ ~s.r.eager

\* the 16-bit unsigned value the wire declares as AddressLength
DeclaredLength(data) == data[15] * 256 + data[16]

\* the signature, the version nibble and the command nibble are acceptable
PassesVersion(data) ==
  /\ Len(data) >= 16
  /\ SubSeq(data, 1, 12) = ProtocolSignature
  /\ data[13] \in {32, 33}

FamilyOf(b) == b \div 16
TransportOf(b) == b % 16

RecognizedPair(b) == FamilyOf(b) \in 1..3 /\ TransportOf(b) \in 1..2

NoLayoutPair(b) ==
  /\ FamilyOf(b) \in 0..3
  /\ TransportOf(b) \in 0..2
  /\ (FamilyOf(b) = 0 \/ TransportOf(b) = 0)

FixedSize(b) ==
  CASE FamilyOf(b) = 1 -> 12 [] FamilyOf(b) = 2 -> 36 [] FamilyOf(b) = 3 -> 216

\* the single read a whole-read reader answers a request of k bytes with
WholeRead(r, k) == [n |-> Min(k, Remaining(r)), eof |-> Remaining(r) = 0]

\* ReadFrom run to its end against a reader of whole reads
RECURSIVE RunWhole(_)
RunWhole(s) ==
  IF DecoderRunning(s) THEN RunWhole(DecodeStep(s, WholeRead(s.r, Want(s))))
  ELSE s

\* the wire form of a Header as the format defines it: an IP right-aligned
\* in its 4 or 16 bytes, a path NUL-padded or cut to 108 bytes, ports
\* big-endian
WireIP(ip, n) ==
  [i \in 1..n |-> LET j == Len(ip) - n + i IN IF j >= 1 THEN ip[j] ELSE 0]

WirePath(name) == [i \in 1..108 |-> IF i <= Len(name) THEN name[i] ELSE 0]

WirePort(addr) == <<(addr.Port \div 256) % 256, addr.Port % 256>>

WireTransport(addr) ==
  IF addr.type = "UDPAddr" \/ (addr.type = "UnixAddr" /\ addr.Net = "unixgram")
  THEN 2 ELSE 1

WirePayload(a) ==
  CASE a.type = "IPv4Address" ->
         WireIP(a.SourceAddr.IP, 4) \o WireIP(a.DestinationAddr.IP, 4)
         \o WirePort(a.SourceAddr) \o WirePort(a.DestinationAddr)
    [] a.type = "IPv6Address" ->
         WireIP(a.SourceAddr.IP, 16) \o WireIP(a.DestinationAddr.IP, 16)
         \o WirePort(a.SourceAddr) \o WirePort(a.DestinationAddr)
    [] a.type = "UnixAddr" ->
         WirePath(a.SourceAddr.Name) \o WirePath(a.DestinationAddr.Name)

WireFamily(a) ==
  CASE a.type = "IPv4Address" -> 1 [] a.type = "IPv6Address" -> 2
    [] a.type = "UnixAddr" -> 3

WireSize(a) ==
  CASE a.type = "IPv4Address" -> 12 [] a.type = "IPv6Address" -> 36
    [] a.type = "UnixAddr" -> 216

WireOfProxy(h) ==
  ProtocolSignature
  \o <<33, 16 * WireFamily(h.ProxyAddress) + WireTransport(h.ProxyAddress.SourceAddr)>>
  \o <<WireSize(h.ProxyAddress) \div 256, WireSize(h.ProxyAddress) % 256>>
  \o WirePayload(h.ProxyAddress)

\* LOCAL without an address, or PROXY with one of the variants
ValidHeader(h) ==
  \/ h.Command = CommandLOCAL /\ h.ProxyAddress = NilAddress
  \/ h.Command = CommandPROXY /\ h.ProxyAddress # NilAddress

(***************************************************************************)
(* Round trip and the test vectors.                                        *)
(***************************************************************************)
\* C1: for every valid Header h (LOCAL without an address, PROXY with one of
\* the variants), WriteTo completes without error or panic, and ReadFrom on
\* the bytes it wrote returns no error and a Header equal to h.
C1_RoundTrip ==
  (task = "encode" /\ enc.w.limit = NoLimit /\ ValidHeader(enc.h)) =>
    /\ EncoderEnded(enc) => enc.pc = "done" /\ enc.err = NoError
    /\ DecoderEnded(dec) =>
         dec.pc = "done" /\ dec.err = NoError /\ dec.h = enc.h

\* C2: decoding a well-formed header (signature, 0x21, 0x11, length 12 and 12
\* payload bytes) from a reader of whole reads returns no error and 28 bytes
\* consumed, sets Command = PROXY and attaches an IPv4 variant of TCP
\* endpoints: source IP = payload bytes 0..3, destination IP = payload bytes
\* 4..7, source port = big-endian payload bytes 8..9, destination port =
\* big-endian payload bytes 10..11; the canonical vector gives
\* 127.0.0.1:42446 -> 127.0.0.1:1338.
C2_DecodeIPv4 ==
  LET data == dec.r.data
  IN (/\ task = "decode" /\ WholeReads(dec) /\ DecoderEnded(dec)
      /\ PassesVersion(data) /\ Len(data) >= 28
      /\ data[13] = 33 /\ data[14] = 17 /\ DeclaredLength(data) = 12) =>
       /\ dec.pc = "done" /\ dec.err = NoError /\ dec.m = 28
       /\ dec.h.Command = CommandPROXY
       /\ dec.h.ProxyAddress =
            IPv4Address(TCPAddr(SubSeq(data, 17, 20), data[25] * 256 + data[26]),
                        TCPAddr(SubSeq(data, 21, 24), data[27] * 256 + data[28]))
       /\ data = CanonicalVector => dec.h = TestHeader

C2_Witness ==
  /\ task = "decode" /\ WholeReads(dec) /\ dec.pc = "done"
  /\ dec.r.data = CanonicalVector
  /\ dec.m = 28 /\ dec.err = NoError /\ dec.h = TestHeader

\* C3: for every input whose first 12 bytes differ from the signature, read
\* by a reader of whole reads, ReadFrom fails with ProxyProtocolError carrying
\* the expected and the read 12 bytes, reports 12 bytes consumed and has read
\* nothing past them.
C3_SignatureMismatch ==
  LET data == dec.r.data
  IN (/\ task = "decode" /\ WholeReads(dec) /\ dec.pc # "signature"
      /\ Len(data) >= 12 /\ SubSeq(data, 1, 12) # ProtocolSignature) =>
       /\ dec.pc = "done"
       /\ dec.err = ProxyProtocolError(ProtocolSignature, SubSeq(data, 1, 12))
       /\ dec.m = 12 /\ dec.r.pos = 12 /\ Len(dec.reads) = 1

C3_Witness ==
  /\ task = "decode" /\ WholeReads(dec) /\ dec.pc = "done"
  /\ dec.r.data = Wire(BrokenSignature, 33, 17, 12, CanonicalPayload)
  /\ dec.err.kind = "ProxyProtocolError" /\ dec.m = 12

\* C4: encoding a Header with command PROXY and an attached variant into a
\* writer that accepts every write writes exactly: the signature, 0x21, the
\* protocol byte (family high nibble, transport low nibble), the fixed size
\* (12, 36, 216) as 2 big-endian bytes, then source address, destination
\* address and, for IPv4/IPv6, source and destination port big-endian; the
\* returned count is the length written, and the test's IPv4/TCP Header gives
\* the 28-byte canonical vector.
C4_EncodeProxy ==
  (/\ enc.w.limit = NoLimit /\ EncoderEnded(enc)
   /\ enc.h.Command = CommandPROXY /\ enc.h.ProxyAddress # NilAddress) =>
    /\ enc.pc = "done" /\ enc.err = NoError
    /\ enc.w.buf = WireOfProxy(enc.h)
    /\ Len(enc.w.buf) = 16 + WireSize(enc.h.ProxyAddress)
    /\ enc.m = Len(enc.w.buf)
    /\ enc.h = TestHeader => enc.w.buf = CanonicalVector /\ enc.m = 28

C4_Witness ==
  /\ task = "encode" /\ enc.pc = "done" /\ enc.h = TestHeader
  /\ enc.w.buf = CanonicalVector /\ enc.m = 28

\* C5: encoding any Header with command LOCAL, with or without an address
\* variant attached, completes without error and writes exactly 16 bytes:
\* signature, 0x20, a protocol byte and AddressLength 00 00.
C5_EncodeLocal ==
  (enc.w.limit = NoLimit /\ EncoderEnded(enc) /\ enc.h.Command = CommandLOCAL) =>
    /\ enc.pc = "done" /\ enc.err = NoError
    /\ Len(enc.w.buf) = 16 /\ enc.m = 16
    /\ SubSeq(enc.w.buf, 1, 12) = ProtocolSignature
    /\ enc.w.buf[13] = 32 /\ enc.w.buf[15] = 0 /\ enc.w.buf[16] = 0

(***************************************************************************)
(* The address block: declared length, framing, drain.                     *)
(***************************************************************************)
\* C6: when the (family, transport) pair is one of the six recognized pairs
\* and the declared AddressLength is nonzero and differs from the pair's
\* fixed size, ReadFrom fails: it never returns success.
C6_LengthMismatch ==
  LET data == dec.r.data
  IN (/\ task = "decode" /\ WholeReads(dec) /\ DecoderEnded(dec)
      /\ PassesVersion(data) /\ RecognizedPair(data[14])
      /\ DeclaredLength(data) # 0
      /\ DeclaredLength(data) # FixedSize(data[14])) =>
       dec.pc = "done" /\ dec.err # NoError

\* C7: a decode that has read AddressLength = L from a source holding at
\* least 16 + L bytes consumes exactly 16 + L bytes, on success and on error,
\* whatever the (family, transport) pair.
C7_Framing ==
  LET data == dec.r.data
  IN (/\ task = "decode" /\ WholeReads(dec) /\ DecoderEnded(dec)
      /\ PassesVersion(data)
      /\ FamilyOf(data[14]) \in 0..3 /\ TransportOf(data[14]) \in 0..2
      /\ Size(dec.r) >= 16 + DeclaredLength(data)) =>
       /\ dec.r.pos = 16 + DeclaredLength(data)
       /\ dec.m = 16 + DeclaredLength(data)

\* C8: when family and transport are valid but the pair has no payload layout
\* and the declared AddressLength L is nonzero, ReadFrom discards exactly L
\* bytes, reports 16 + L bytes consumed and fails with TransportProtocolError
\* carrying the family, the transport and L.
C8_Drain ==
  LET data == dec.r.data
  IN (/\ task = "decode" /\ WholeReads(dec) /\ DecoderEnded(dec)
      /\ PassesVersion(data) /\ NoLayoutPair(data[14])
      /\ DeclaredLength(data) # 0
      /\ Size(dec.r) >= 16 + DeclaredLength(data)) =>
       /\ dec.pc = "done"
       /\ dec.err = TransportProtocolError(TransportOf(data[14]),
                                           FamilyOf(data[14]),
                                           DeclaredLength(data))
       /\ dec.m = 16 + DeclaredLength(data)
       /\ dec.r.pos = 16 + DeclaredLength(data)

(***************************************************************************)
(* Short reads and truncated input.                                        *)
(***************************************************************************)
\* C9: however the reader splits the byte sequence into short reads (no error
\* before the data ends), ReadFrom returns the same Header, the same count
\* and the same error as when every requested field comes in a single read.
C9_ChunkingIndependence ==
  (task = "decode" /\ ~dec.r.eager /\ DecoderEnded(dec)) =>
    Outcome(dec) =
      Outcome(RunWhole(StartDecoder(Reader(dec.r.data, dec.r.fill, FALSE, FALSE),
                                     dec.old)))

\* C10: when the source ends before the last byte the header needs, ReadFrom
\* fails with the error of the source and a count equal to the bytes the
\* source delivered; it never succeeds and never reports a validation error
\* computed from a partially filled field.
C10_Truncated ==
  (/\ task = "decode" /\ WholeReads(dec) /\ DecoderEnded(dec)
   /\ \E i \in 1..Len(dec.reads) : dec.reads[i].got < dec.reads[i].want) =>
    /\ dec.pc = "done"
    /\ dec.err = ErrSource
    /\ dec.m = dec.r.pos

(***************************************************************************)
(* Byte accounting.                                                        *)
(***************************************************************************)
\* the bytes the logged reads obtained from the source
RECURSIVE SumGot(_)
SumGot(reads) ==
  IF reads = <<>> THEN 0 ELSE reads[1].got + SumGot(Tail(reads))

\* C11: whenever ReadFrom has returned (success, validation error, or an
\* error of the source at any field), the count it returns is the number of
\* bytes its reads obtained from the source, the bytes of a read that also
\* returned an error included.
C11_DecodeAccounting ==
  dec.pc = "done" =>
    /\ dec.m = SumGot(dec.reads)
    /\ dec.m = dec.r.pos

\* a read of an address returned bytes together with an error, and ReadFrom
\* returned that error
C11_Witness ==
  /\ dec.pc = "done"
  /\ dec.err = ErrSource
  /\ Len(dec.reads) >= 5
  /\ dec.reads[Len(dec.reads)].failed
  /\ dec.reads[Len(dec.reads)].got > 0
  /\ dec.m = 16 + dec.reads[Len(dec.reads)].got

\* the length of the header WriteTo produces for h when every write succeeds
EncodedLength(h) ==
  IF h.Command = CommandPROXY THEN 16 + getLength(h.ProxyAddress) ELSE 16

\* C12: whenever WriteTo has returned (success, or a failure of the sink at
\* any field, a sink that accepts part of a write before failing included),
\* the count it returns is the number of bytes the sink accepted; on success
\* it is the length of the output, 16 for LOCAL and 16 + 12, 36 or 216 for
\* PROXY.
C12_EncodeAccounting ==
  enc.pc = "done" =>
    /\ enc.m = Len(enc.w.buf)
    /\ enc.err = NoError => enc.m = EncodedLength(enc.h)

(***************************************************************************)
(* The checks of the version byte and the protocol byte.                   *)
(***************************************************************************)
\* the source starts with the signature and has a 13th byte b
SignedWith13(data) ==
  Len(data) >= 13 /\ SubSeq(data, 1, 12) = ProtocolSignature

\* ReadFrom has returned after its second read, with 13 bytes consumed and
\* the Header as the caller passed it
StoppedAtVersion(s) ==
  /\ s.pc = "done"
  /\ s.m = 13
  /\ s.r.pos = 13
  /\ Len(s.reads) = 2
  /\ s.h = s.old

\* C13: when the signature is right and the high nibble of the 13th byte is
\* not 2, ReadFrom fails with the unsupported-version error after consuming
\* exactly 13 bytes, reads nothing further and leaves Header.Command as it
\* was.
C13_UnsupportedVersion ==
  (/\ WholeReads(dec) /\ dec.pc \notin {"idle", "signature", "version"}
   /\ SignedWith13(dec.r.data)
   /\ dec.r.data[13] \div 16 # 2) =>
    /\ StoppedAtVersion(dec)
    /\ dec.err = ErrVersion(dec.r.data[13] \div 16)

\* the version nibble is 1 and the command nibble differs from the Command
\* the Header held
C13_Witness ==
  /\ WholeReads(dec) /\ SignedWith13(dec.r.data)
  /\ dec.r.data[13] \div 16 = 1
  /\ dec.r.data[13] % 16 # dec.old.Command
  /\ StoppedAtVersion(dec)
  /\ dec.err = ErrVersion(1)

\* C14: when the signature is right, the version nibble is 2 and the command
\* nibble is one of 2..15, ReadFrom fails with the unsupported-command error
\* after consuming exactly 13 bytes, reads nothing further and never stores
\* the reserved value; after any decode that got past this check
\* Header.Command is LOCAL or PROXY.
C14_UnsupportedCommand ==
  /\ (/\ WholeReads(dec) /\ dec.pc \notin {"idle", "signature", "version"}
      /\ SignedWith13(dec.r.data)
      /\ dec.r.data[13] \div 16 = 2
      /\ dec.r.data[13] % 16 \in 2..15) =>
       /\ StoppedAtVersion(dec)
       /\ dec.err = ErrCommand(dec.r.data[13] % 16)
  /\ Len(dec.reads) >= 3 => dec.h.Command \in {CommandLOCAL, CommandPROXY}

\* the command nibble is 2, the reserved value next to PROXY
C14_Witness ==
  /\ WholeReads(dec) /\ SignedWith13(dec.r.data)
  /\ dec.r.data[13] = 34
  /\ StoppedAtVersion(dec)
  /\ dec.err = ErrCommand(2)

\* C15: past the signature and the version byte, a family nibble in 4..15
\* fails with the unsupported-address-family error, and otherwise a transport
\* nibble in 3..15 fails with the unsupported-transport-protocol error; in
\* both cases exactly 14 bytes are consumed and neither the address length
\* nor any payload is read.
C15_UnsupportedProtocolByte ==
  LET data == dec.r.data
  IN (/\ WholeReads(dec)
      /\ dec.pc \notin {"idle", "signature", "version", "protocol"}
      /\ Len(data) >= 14 /\ SignedWith13(data) /\ data[13] \in {32, 33}
      /\ (FamilyOf(data[14]) \in 4..15 \/ TransportOf(data[14]) \in 3..15)) =>
       /\ dec.pc = "done"
       /\ dec.err = IF FamilyOf(data[14]) \in 4..15
                    THEN ErrFamily(FamilyOf(data[14]))
                    ELSE ErrTransport(TransportOf(data[14]))
       /\ dec.m = 14
       /\ dec.r.pos = 14
       /\ Len(dec.reads) = 3
       /\ dec.h.ProxyAddress = dec.old.ProxyAddress

\* both nibbles are out of range and the family is the one reported
C15_Witness ==
  /\ WholeReads(dec) /\ Len(dec.r.data) >= 14 /\ SignedWith13(dec.r.data)
  /\ FamilyOf(dec.r.data[14]) = 4 /\ TransportOf(dec.r.data[14]) = 5
  /\ dec.pc = "done"
  /\ dec.err = ErrFamily(4)
  /\ dec.m = 14
  /\ Len(dec.reads) = 3

(***************************************************************************)
(* A Header without an address.                                            *)
(***************************************************************************)
\* C16: encoding a Header whose command is PROXY and which has no address
\* variant attached returns an error to the caller and writes no byte to the
\* sink.
C16_ProxyWithoutVariant ==
  (/\ enc.pc # "idle"
   /\ enc.h.Command = CommandPROXY
   /\ enc.h.ProxyAddress = NilAddress) =>
    /\ enc.w.buf = <<>>
    /\ EncoderEnded(enc) => (enc.pc = "done" /\ enc.err # NoError)

\* C17: after every successful ReadFrom on a fresh Header the address is
\* absent whenever the decoded command is LOCAL or the declared AddressLength
\* is 0; and a header whose AddressLength is 0 ends decoding at exactly 16
\* bytes with no error, for every valid command and every valid
\* family/transport pair.
C17_AbsentAddress ==
  LET data == dec.r.data
  IN /\ (/\ WholeReads(dec) /\ Len(data) >= 16
         /\ dec.old.ProxyAddress = NilAddress
         /\ dec.pc = "done" /\ dec.err = NoError
         /\ (dec.h.Command = CommandLOCAL \/ DeclaredLength(data) = 0)) =>
          dec.h.ProxyAddress = NilAddress
     /\ (/\ WholeReads(dec) /\ DecoderEnded(dec)
         /\ PassesVersion(data)
         /\ FamilyOf(data[14]) \in 0..3 /\ TransportOf(data[14]) \in 0..2
         /\ DeclaredLength(data) = 0) =>
          /\ dec.pc = "done"
          /\ dec.err = NoError
          /\ dec.m = 16
          /\ dec.r.pos = 16

(***************************************************************************)
(* The width of AddressLength.                                             *)
(***************************************************************************)
\* C18: AddressLength is decoded as an unsigned 16-bit big-endian integer:
\* for the two bytes b0 b1 the decoder holds 256 * b0 + b1, a value in
\* 0..65535 that is never negative, and on the drain path that value is the
\* number of bytes drained and the length the error carries, for the values
\* 32768..65535 too.
C18_UnsignedLength ==
  LET data == dec.r.data
  IN /\ (/\ WholeReads(dec) /\ Len(data) >= 16
         /\ Len(dec.reads) >= 4 /\ ~dec.reads[4].failed) =>
          /\ dec.addressLength = 256 * data[15] + data[16]
          /\ dec.addressLength \in 0..65535
     /\ (/\ WholeReads(dec) /\ DecoderEnded(dec)
         /\ PassesVersion(data) /\ NoLayoutPair(data[14])
         /\ DeclaredLength(data) # 0
         /\ Size(dec.r) >= 16 + DeclaredLength(data)) =>
          /\ Len(dec.reads) = 5
          /\ dec.reads[5].field = "drain"
          /\ dec.reads[5].got = 256 * data[15] + data[16]
          /\ dec.err.kind = "TransportProtocolError"
          /\ dec.err.AddressLength = 256 * data[15] + data[16]

(***************************************************************************)
(* Repeated and concurrent invocations.                                    *)
(***************************************************************************)
\* WriteTo from one write to the next
EncodeStep(s) ==
  CASE s.pc = "signature" -> WriteToSignature(s)
    [] s.pc = "version" -> WriteToVersion(s)
    [] s.pc = "protocol" -> WriteToProtocol(s)
    [] s.pc = "addressLength" -> WriteToAddressLength(s)
    [] s.pc \in {"sourceAddr", "destinationAddr"} -> WriteToEndpoint(s)
    [] s.pc \in {"sourcePort", "destinationPort"} -> WriteToPort(s)
    [] OTHER -> s

\* the run of WriteTo with nothing else running
RECURSIVE RunEncoder(_)
RunEncoder(s) ==
  IF s.pc \in {"idle", "done", "panicked"} THEN s
  ELSE RunEncoder(EncodeStep(s))

\* what the caller of WriteTo observes
EncodeOutcome(s) ==
  [buf |-> s.w.buf, m |-> s.m, err |-> s.err, panicked |-> s.pc = "panicked"]

\* C19: encoding the same Header twice, into two sinks that accept every
\* write, produces the same bytes and the same count: the output depends on
\* the Header only, whatever else the process did in between.
C19_EncodeDeterministic ==
  (enc.prev.taken /\ EncoderEnded(enc)) =>
    /\ enc.pc = "done"
    /\ enc.w.buf = enc.prev.buf
    /\ enc.m = enc.prev.m
    /\ enc.err = enc.prev.err

\* the Header of the test has been encoded twice while a decode of a source
\* with a wrong signature ran and ended
C19_Witness ==
  /\ enc.prev.taken /\ enc.pc = "done"
  /\ enc.h = TestHeader
  /\ enc.w.buf = CanonicalVector
  /\ enc.prev.buf = CanonicalVector
  /\ dec.pc = "done"
  /\ dec.err = ProxyProtocolError(ProtocolSignature, BrokenSignature)

\* both invocations show what each shows when it runs with nothing else
\* running, and the package variable holds the bytes it started with
AsAlone ==
  /\ pkg = Package
  /\ DecoderEnded(dec) =>
       Outcome(dec) =
         Outcome(RunWhole(StartDecoder(Reader(dec.r.data, dec.r.fill,
                                              FALSE, FALSE), dec.old)))
  /\ EncoderEnded(enc) =>
       EncodeOutcome(enc) =
         EncodeOutcome(RunEncoder(StartEncoder(enc.h, Writer(enc.w.limit))))

\* a step of one invocation leaves the other invocation and the package
\* variable as they were
OwnStateOnly ==
  /\ pkg' = pkg
  /\ dec' # dec => enc' = enc
  /\ enc' # enc => dec' = dec

\* C20: a decode and an encode that run concurrently on a source, a sink and
\* Headers of their own produce, under every interleaving of their reads and
\* writes, the Header, the count and the error each produces alone; no step
\* of one writes what the other reads, and no step modifies the signature
\* the package holds.
C20_Independent == []AsAlone /\ [][OwnStateOnly]_vars

\* the decode of the test vector has ended with the Header of the test while
\* the encode of that Header is between two of its writes
C20_Witness ==
  /\ task = "concurrent"
  /\ dec.pc = "done" /\ dec.err = NoError
  /\ dec.h = TestHeader /\ dec.m = 28
  /\ enc.h = TestHeader
  /\ enc.pc = "sourcePort"
  /\ Len(enc.w.buf) = 24

(***************************************************************************)
(* The order of the reads.                                                 *)
(***************************************************************************)
\* the reads of the address block that the protocol byte b selects
AddressBlockFields(b) ==
  IF RecognizedPair(b) /\ FamilyOf(b) \in {1, 2}
  THEN <<"sourceIP", "destinationIP", "sourcePort", "destinationPort">>
  ELSE IF RecognizedPair(b) THEN <<"unixSource", "unixDestination">>
  ELSE <<"drain">>

\* the reads of a whole run, in their order
ReadOrder(s) ==
  <<"signature", "version", "protocol", "addressLength">>
    \o (IF Len(s.reads) >= 4 THEN AddressBlockFields(s.r.data[14]) ELSE <<>>)

\* the number of bytes a read of the field asks for
FieldSize(s, field) ==
  CASE field = "signature" -> 12
    [] field \in {"version", "protocol"} -> 1
    [] field \in {"addressLength", "sourcePort", "destinationPort"} -> 2
    [] field \in {"sourceIP", "destinationIP"} ->
         IF FamilyOf(s.r.data[14]) = 1 THEN 4 ELSE 16
    [] field \in {"unixSource", "unixDestination"} -> 108
    [] field = "drain" -> s.addressLength

\* some read of the run returned an error
SomeReadFailed(s) == \E i \in 1..Len(s.reads) : s.reads[i].failed

\* C21: ReadFrom requests the fields in the order signature (12 bytes),
\* version/command (1), protocol (1), address length (2), address block, none
\* twice and none skipped; after an error of the source or a failed check no
\* further read is issued; and every run ends, after a bounded number of
\* reads, by returning success or an error.
C21_ReadOrder ==
  /\ Len(dec.reads) <= Len(ReadOrder(dec))
  /\ \A i \in 1..Len(dec.reads) :
       /\ dec.reads[i].field = ReadOrder(dec)[i]
       /\ dec.reads[i].want = FieldSize(dec, dec.reads[i].field)
       /\ dec.reads[i].failed => (i = Len(dec.reads) /\ dec.pc = "done")
  /\ DecoderRunning(dec) =>
       /\ dec.err = NoError
       /\ dec.pc = ReadOrder(dec)[Len(dec.reads) + 1]
       /\ ReadOutcomes(dec.r, Want(dec)) # {}
  /\ DecoderEnded(dec) =>
       /\ dec.pc = "done"
       /\ (dec.err = NoError /\ Len(dec.reads) >= 4 /\ dec.addressLength # 0) =>
            Len(dec.reads) = Len(ReadOrder(dec))
       /\ dec.err.kind = "TransportProtocolError" =>
            Len(dec.reads) = Len(ReadOrder(dec))

(***************************************************************************)
(* The protocol byte and the AddressLength field WriteTo writes.           *)
(***************************************************************************)
\* C22: on encode with command PROXY the high nibble of the protocol byte is
\* INET (1), INET6 (2) or UNIX (3) according to the attached variant, and its
\* low nibble comes from the kind of the source endpoint: STREAM (1) for a TCP
\* endpoint and a UNIX endpoint whose network is not "unixgram", DGRAM (2) for
\* a UDP endpoint and a UNIX endpoint whose network is "unixgram"; the Header
\* stores no transport value.
C22_ProtocolByte ==
  (/\ enc.h.Command = CommandPROXY /\ enc.h.ProxyAddress # NilAddress
   /\ enc.pc \notin {"idle", "signature", "version", "protocol"}
   /\ Len(enc.w.buf) >= 14) =>
    LET a == enc.h.ProxyAddress
        src == a.SourceAddr
    IN /\ enc.w.buf[14] \div 16 =
            (CASE a.type = "IPv4Address" -> 1
               [] a.type = "IPv6Address" -> 2
               [] a.type = "UnixAddr" -> 3)
       /\ enc.w.buf[14] % 16 =
            (CASE src.type = "TCPAddr" -> 1
               [] src.type = "UDPAddr" -> 2
               [] src.type = "UnixAddr" -> IF src.Net = "unixgram" THEN 2 ELSE 1)
       /\ DOMAIN enc.h = {"Command", "ProxyAddress"}
       /\ DOMAIN a = {"type", "SourceAddr", "DestinationAddr"}

\* an IPv4 variant whose source is a TCP endpoint and whose destination is a
\* UDP endpoint has been encoded as INET/STREAM
C22_Witness ==
  /\ enc.h.Command = CommandPROXY /\ enc.pc = "done" /\ enc.err = NoError
  /\ enc.h.ProxyAddress.type = "IPv4Address"
  /\ enc.h.ProxyAddress.SourceAddr.type = "TCPAddr"
  /\ enc.h.ProxyAddress.DestinationAddr.type = "UDPAddr"
  /\ enc.w.buf[14] = 17

\* C23: after every successful encode of a PROXY Header the value in the
\* AddressLength field is the number of payload bytes written after it: 12
\* for IPv4, 36 for IPv6, 216 for UNIX, for IPs stored as 4 or 16 bytes, an
\* empty IP, and UNIX paths shorter or longer than 108 bytes.
C23_LengthMatchesPayload ==
  (/\ enc.pc = "done" /\ enc.err = NoError
   /\ enc.h.Command = CommandPROXY) =>
    /\ 256 * enc.w.buf[15] + enc.w.buf[16] = Len(enc.w.buf) - 16
    /\ Len(enc.w.buf) - 16 =
         (CASE enc.h.ProxyAddress.type = "IPv4Address" -> 12
            [] enc.h.ProxyAddress.type = "IPv6Address" -> 36
            [] enc.h.ProxyAddress.type = "UnixAddr" -> 216)

\* a UNIX variant whose source path is longer than 108 bytes and whose
\* destination path is empty has been encoded
C23_Witness ==
  /\ enc.pc = "done" /\ enc.err = NoError
  /\ enc.h.Command = CommandPROXY
  /\ enc.h.ProxyAddress.type = "UnixAddr"
  /\ Len(enc.h.ProxyAddress.SourceAddr.Name) > 108
  /\ enc.h.ProxyAddress.DestinationAddr.Name = <<>>
  /\ Len(enc.w.buf) = 232
  /\ enc.w.buf[15] = 0 /\ enc.w.buf[16] = 216

(***************************************************************************)
(* From the wire to a Header and back.                                     *)
(***************************************************************************)
\* the source starts with a well-formed PROXY header of one of the six
\* recognized pairs whose AddressLength is the fixed size of the pair
WellFormedProxy(r) ==
  /\ PassesVersion(r.data)
  /\ r.data[13] = 33
  /\ RecognizedPair(r.data[14])
  /\ DeclaredLength(r.data) = FixedSize(r.data[14])
  /\ Size(r) >= 16 + FixedSize(r.data[14])

\* C24: for every well-formed header b with command PROXY, one of the six
\* recognized (family, transport) pairs and AddressLength equal to the fixed
\* size of the pair, ReadFrom succeeds consuming len(b) bytes, and WriteTo of
\* the decoded Header writes exactly b.
C24_WireRoundTrip ==
  (/\ task = "decode" /\ WholeReads(dec) /\ DecoderEnded(dec)
   /\ WellFormedProxy(dec.r)) =>
    LET n == 16 + FixedSize(dec.r.data[14])
    IN /\ dec.pc = "done"
       /\ dec.err = NoError
       /\ dec.m = n
       /\ dec.r.pos = n
       /\ EncoderEnded(enc) =>
            /\ enc.pc = "done"
            /\ enc.err = NoError
            /\ enc.m = n
            /\ enc.w.buf = SubSeq(dec.r.data, 1, n)

\* a UNIX stream header of 232 bytes has been decoded and written back
C24_Witness ==
  /\ task = "decode" /\ WholeReads(dec) /\ WellFormedProxy(dec.r)
  /\ dec.r.data[14] = 49
  /\ dec.pc = "done" /\ dec.m = 232
  /\ enc.pc = "done" /\ enc.h = dec.h
  /\ enc.w.buf = SubSeq(dec.r.data, 1, 232)

(***************************************************************************)
(* What a failed ReadFrom leaves in the Header.                            *)
(***************************************************************************)
\* the bytes the reads of the address block obtained
BlockBytes(s) ==
  IF Len(s.reads) <= 4 THEN 0
  ELSE SumGot(SubSeq(s.reads, 5, Len(s.reads)))

\* the first two reads obtained the signature and a version byte with the
\* version nibble 2 and the command nibble 0 or 1
VersionAccepted(s) ==
  /\ Len(s.reads) >= 2
  /\ ~s.reads[1].failed /\ ~s.reads[2].failed
  /\ s.signature = ProtocolSignature
  /\ s.r.data[13] \in {32, 33}

\* C25: ReadFrom assigns Header.Command only after the signature, the version
\* nibble and the command nibble have been accepted, and assigns
\* Header.ProxyAddress only after every byte of a recognized address block has
\* been read without error; on every failure path and on the
\* AddressLength = 0 path Header.ProxyAddress keeps the value it had before
\* the call.
C25_FrameOnFailure ==
  dec.pc # "idle" =>
    /\ IF VersionAccepted(dec) THEN dec.h.Command = dec.r.data[13] % 16
       ELSE dec.h.Command = dec.old.Command
    /\ dec.h.ProxyAddress # dec.old.ProxyAddress =>
         /\ VersionAccepted(dec)
         /\ RecognizedPair(dec.r.data[14])
         /\ ~SomeReadFailed(dec)
         /\ BlockBytes(dec) = FixedSize(dec.r.data[14])
         /\ dec.pc = "done" /\ dec.err = NoError
    /\ (\/ DecoderRunning(dec)
        \/ dec.pc = "panicked"
        \/ dec.err # NoError
        \/ (Len(dec.reads) = 4 /\ dec.addressLength = 0)) =>
         dec.h.ProxyAddress = dec.old.ProxyAddress

(***************************************************************************)
(* WrapAddress.                                                            *)
(***************************************************************************)
\* C26: WrapAddress(src, dst) returns an error, and never panics, whenever
\* src or dst is nil or the two are of different address types; it returns a
\* variant only when both are present and of the same type, and the variant
\* then holds the given src as its source and the given dst as its
\* destination.
C26_WrapAddress ==
  wrap.pc \in {"returned", "panicked"} =>
    /\ (\/ wrap.src = NilNetAddr \/ wrap.dst = NilNetAddr
        \/ wrap.src.type # wrap.dst.type) =>
         /\ wrap.pc = "returned"
         /\ wrap.err # NoError
         /\ wrap.addr = NilAddress
    /\ (wrap.pc = "returned" /\ wrap.addr # NilAddress) =>
         /\ wrap.err = NoError
         /\ wrap.src # NilNetAddr /\ wrap.dst # NilNetAddr
         /\ wrap.src.type = wrap.dst.type
         /\ wrap.addr.SourceAddr = wrap.src
         /\ wrap.addr.DestinationAddr = wrap.dst

====
